---- MODULE Spec2Model ----
(***************************************************************************)
(* A model of the Atomica integration engine (src/atomica/model.py) and of *)
(* the framework validators (src/atomica/core/framework.py and             *)
(* src/atomica/framework.py).                                              *)
(*                                                                         *)
(* Numbers are exact rationals <<n, d>> with d > 0 (real arithmetic; the   *)
(* rounding of IEEE doubles is not modelled).  <<0, 0>> is NaN, the value  *)
(* numpy arrays are pre-filled with, and <<0, -1>> is Python's None.       *)
(***************************************************************************)
EXTENDS Integers, Sequences, FiniteSets, TLC

VARIABLES
    driver,      \* which entry point drives the run: "phases", "process", "framework", "timed"
    pc,          \* position of the driver
    err,         \* the exception that ended the run, "none" otherwise
    trace,       \* the phases executed so far, as <<phase, ti>> pairs
    t_index,     \* Model._t_index
    dt,          \* Model.dt
    units,       \* Parameter.units, by parameter
    timescale,   \* Parameter.timescale, by parameter
    limits,      \* Parameter.limits, by parameter (NoLimits or <<lo, hi>>)
    par_vals,    \* Parameter.vals, by parameter and tick
    comp_vals,   \* Compartment.vals, by compartment and tick
    link_vals,   \* Link.vals, by link and tick
    link_cache,  \* Link._cache, by link
    sp_cache,    \* Parameter._source_popsize_cache_time/_val, by parameter
    fwk,         \* the framework file under validation and the validators' verdicts
    tc,          \* a timed compartment, its duration parameter and its rows
    junc,        \* the junctions of the framework: their number, values and flows at tick 0
    dyn,         \* Population.build's third pass: the parameters, their functions and flags
    upars,       \* a run of update_pars: the parameters' settings, and their values with
                 \* the programs ("run") and without any ProgramSet ("ref")
    chr,         \* a characteristic with a denominator: its compartments and its values
    ini,         \* initialize_compartments: the databook targets, the solution and the tick-0 values
    cancel,      \* a request to cancel the run and the tick it was made at
    ser,         \* Model.unlink / relink: the objects of a population and their references
    prog,        \* the parameters the ProgramSet has outcomes for, and the outcome
    calls        \* further calls of process() on the same Model, and the trace when the last one was made

vars == <<driver, pc, err, trace, t_index, dt, units, timescale, limits, par_vals,
          comp_vals, link_vals, link_cache, sp_cache, fwk, tc, junc, dyn, upars, chr, ini, cancel, ser, prog, calls>>

-----------------------------------------------------------------------------
(* Bounds *)

\* len(self.t): the number of points of the simulation time grid
NumTicks == 3

\* the largest number of junctions, chained one into the next, in a framework
MaxJunctions == 2

\* the largest number of transitions one framework parameter is marked on
MaxLinks == 2

Ticks == 0 .. (NumTicks - 1)

-----------------------------------------------------------------------------
(* Exact rational arithmetic, with NaN *)

NaN == <<0, 0>>
NoneVal == <<0, -1>>

IsNaN(a) == a[2] = 0
IsNone(a) == a[2] < 0
IsNum(a) == a[2] > 0

Abs(n) == IF n < 0 THEN -n ELSE n

RECURSIVE GCD(_, _)
GCD(a, b) == IF b = 0 THEN a ELSE GCD(b, a % b)

Norm(n, d) ==
    IF d = 0 THEN NaN
    ELSE LET s == IF d < 0 THEN -1 ELSE 1
             g == GCD(Abs(n), Abs(d))
         IN  <<(s * n) \div g, (s * d) \div g>>

R(n) == <<n, 1>>
Zero == <<0, 1>>
One == <<1, 1>>

LCM(a, b) == (a \div GCD(a, b)) * b

\* sums and comparisons go through the least common denominator and products
\* are reduced crosswise first, so that intermediate integers stay small
RAdd(a, b) ==
    IF IsNaN(a) \/ IsNaN(b) THEN NaN
    ELSE LET m == LCM(a[2], b[2])
         IN  Norm(a[1] * (m \div a[2]) + b[1] * (m \div b[2]), m)
RSub(a, b) == RAdd(a, <<-b[1], b[2]>>)
RMul(a, b) ==
    IF IsNaN(a) \/ IsNaN(b) THEN NaN
    ELSE LET g1 == GCD(Abs(a[1]), b[2])
             g2 == GCD(Abs(b[1]), a[2])
         IN  Norm((a[1] \div g1) * (b[1] \div g2), (a[2] \div g2) * (b[2] \div g1))
\* division by a nonzero number (the callers guard the divisor as the code does)
RDiv(a, b) ==
    IF IsNaN(a) \/ IsNaN(b) THEN NaN
    ELSE IF b[1] < 0 THEN RMul(a, <<-b[2], -b[1]>>) ELSE RMul(a, <<b[2], b[1]>>)
\* comparisons with NaN are false, as in IEEE arithmetic
RLt(a, b) ==
    /\ IsNum(a) /\ IsNum(b)
    /\ LET m == LCM(a[2], b[2]) IN a[1] * (m \div a[2]) < b[1] * (m \div b[2])
RLe(a, b) ==
    /\ IsNum(a) /\ IsNum(b)
    /\ LET m == LCM(a[2], b[2]) IN a[1] * (m \div a[2]) <= b[1] * (m \div b[2])
RMin(a, b) == IF RLt(b, a) THEN b ELSE a
RMax(a, b) == IF RLt(a, b) THEN b ELSE a
\* math.ceil of a rational, as an integer
Ceil(a) == -((-a[1]) \div a[2])

RECURSIVE SumF(_, _)
\* the sum of f[l] over the links l of a sequence, added in list order
SumF(f, s) == IF s = <<>> THEN Zero ELSE RAdd(f[Head(s)], SumF(f, Tail(s)))

-----------------------------------------------------------------------------
(* The framework the engine is run on: one population, a source, two plain *)
(* compartments and a sink; "b" drives births, "p" one link, "q" two links *)

\* framework.comps, in declaration order
CompOrder == <<"src", "A", "B", "snk">>
Comps == {CompOrder[i] : i \in DOMAIN CompOrder}

\* the class Population.build instantiates for each compartment
kind == [c \in Comps |->
            CASE c = "src" -> "source"
              [] c = "snk" -> "sink"
              [] OTHER -> "plain"]

\* framework.pars, in declaration order
ParOrder == <<"b", "p", "q">>
Pars == {ParOrder[i] : i \in DOMAIN ParOrder}

\* framework.transitions: parameter -> list of (from, to) pairs
Transitions == [par \in Pars |->
                   CASE par = "b" -> << <<"src", "A">> >>
                     [] par = "p" -> << <<"A", "B">> >>
                     [] par = "q" -> << <<"A", "snk">>, <<"B", "snk">> >>]

\* the links src.connect(dst, par) creates for one parameter, in list order
LinksOfPar(par) ==
    [i \in DOMAIN Transitions[par] |->
        [par |-> par, source |-> Transitions[par][i][1], dest |-> Transitions[par][i][2]]]

RECURSIVE ConcatLinks(_)
ConcatLinks(ps) == IF ps = <<>> THEN <<>> ELSE LinksOfPar(Head(ps)) \o ConcatLinks(Tail(ps))

\* pop.links: every Link, in creation order
PopLinks == ConcatLinks(ParOrder)
Links == {PopLinks[i] : i \in DOMAIN PopLinks}

\* Compartment.outlinks / Compartment.inlinks / Parameter.links, in creation order
outlinks(c) == SelectSeq(PopLinks, LAMBDA l : l.source = c)
inlinks(c) == SelectSeq(PopLinks, LAMBDA l : l.dest = c)
par_links(par) == SelectSeq(PopLinks, LAMBDA l : l.par = par)

\* FS.QUANTITY_TYPE_*: the units update_links knows
KnownUnits == {"duration", "probability", "number", "proportion"}

\* model_settings['tolerance'] = 1e-6
tolerance == <<1, 1000000>>

NoLimits == <<NaN, NaN>>

-----------------------------------------------------------------------------
(* Model.build: parameter values and initial compartment sizes *)

\* Parameter.constrain for one value: np.clip(v, lo, hi) / the two comparisons
constrain(v, lim) ==
    IF lim = NoLimits THEN v
    ELSE IF RLt(v, lim[1]) THEN lim[1]
         ELSE IF RLt(lim[2], v) THEN lim[2] ELSE v

\* Model.build: par.vals = interpolate(...) * par.scale_factor, then par.constrain()
build_par_vals(data, scale_factor, lim) ==
    [ti \in Ticks |-> constrain(RMul(data, scale_factor), lim)]

\* np.linalg.lstsq for the databook targets "alive = A + B" and "A": the system
\* is square and invertible, so the least-squares solution is exact
lstsq(b_alive, b_A) == [c \in {"A", "B"} |-> IF c = "A" THEN b_A ELSE RSub(b_alive, b_A)]

\* Population.initialize_compartments raises BadInitialization for a negative popsize
BadInitialization(x) == \E c \in DOMAIN x : RLt(x[c], RSub(Zero, tolerance))

\* initialize_compartments storing the solution as it is
initial_value_unclamped(xi) == xi

\* Population.initialize_compartments: c[0] = max(0.0, x[i])
initial_value(xi) == RMax(Zero, xi)

\* the compartment arrays after preallocate and initialize_compartments
initial_comp_vals(x) ==
    [c \in Comps |->
        [ti \in Ticks |->
            CASE kind[c] = "source" -> Zero
              [] kind[c] = "sink" -> IF ti = 0 THEN Zero ELSE NaN
              [] OTHER -> IF ti = 0 THEN initial_value(x[c]) ELSE NaN]]

-----------------------------------------------------------------------------
(* Model.update_links *)

\* par[ti], with a negative transition replaced by 0
transition(par, ti) ==
    IF RLt(par_vals[par][ti], Zero) THEN Zero ELSE par_vals[par][ti]

\* the yearly number taken as the number per step
converted_amt_unscaled(par, ti) == transition(par, ti)

\* converted_amt = transition * (self.dt / par.timescale)
converted_amt(par, ti) == RMul(transition(par, ti), RDiv(dt, timescale[par]))

\* a cache that is never compared with the time asked for
sp_cached_any_time(par, ti) == sp_cache[par].time >= 0

\* whether Parameter.source_popsize(ti) answers from its cache
sp_cached(par, ti) == sp_cache[par].time = ti

\* Parameter.source_popsize(ti)
source_popsize(par, ti) ==
    IF sp_cached(par, ti) THEN sp_cache[par].val
    ELSE SumF([l \in Links |-> comp_vals[l.source][ti]], par_links(par))

\* isinstance(par.links[0].source, SourceCompartment)
source_driven(par) == kind[par_links(par)[1].source] = "source"

\* whether update_links reaches source_popsize for this parameter
calls_source_popsize(par, ti) ==
    /\ par_links(par) # <<>>
    /\ transition(par, ti) # Zero
    /\ units[par] = "number"
    /\ ~source_driven(par)

\* a duration whose timescale is taken per step instead of per year
duration_frac_inverted(par, tr) == RMin(One, RDiv(timescale[par], RMul(tr, dt)))

\* duration units: converted_frac = min(1, self.dt / (transition * par.timescale))
duration_frac(par, tr) == RMin(One, RDiv(dt, RMul(tr, timescale[par])))

\* a probability converted with the reciprocal of the step factor
probability_frac_inverted(par, tr) == RMin(One, RMul(tr, RDiv(timescale[par], dt)))

\* probability units: converted_frac = min(1, transition * (self.dt / par.timescale))
probability_frac(par, tr) == RMin(One, RMul(tr, RDiv(dt, timescale[par])))

\* the fraction (or, for a source, the number) update_links caches on a link
converted_frac(l, ti) ==
    LET par == l.par
        tr == transition(par, ti)
    IN  IF tr = Zero THEN Zero
        ELSE CASE units[par] = "duration" -> duration_frac(par, tr)
               [] units[par] = "probability" -> probability_frac(par, tr)
               [] units[par] = "number" ->
                      IF source_driven(par)
                      THEN IF l = par_links(par)[1] THEN converted_amt(par, ti)
                           ELSE link_cache[l]
                      ELSE IF source_popsize(par, ti) # Zero
                           THEN RDiv(converted_amt(par, ti), source_popsize(par, ti))
                           ELSE Zero
               [] OTHER -> link_cache[l]

\* update_links raises for a transition parameter with unrecognised units
unknown_units(ti) ==
    \E par \in Pars :
        /\ par_links(par) # <<>>
        /\ transition(par, ti) # Zero
        /\ units[par] \notin KnownUnits

\* the parameters update_links has gone through when it raises: those declared
\* before the first one with unrecognised units
before_raise(par, ti) ==
    \E i \in DOMAIN ParOrder :
        /\ ParOrder[i] = par
        /\ \A j \in 1 .. i :
               ~(/\ par_links(ParOrder[j]) # <<>>
                 /\ transition(ParOrder[j], ti) # Zero
                 /\ units[ParOrder[j]] \notin KnownUnits)

\* resolve_outflows without the rescaling
rescale_none(outflow) == One

\* Compartment.resolve_outflows: rescale = 1/outflow if outflow > 1 else 1
rescale(outflow) == IF RLt(One, outflow) THEN RDiv(One, outflow) ELSE One

\* Compartment.resolve_outflows for one outlink: link[ti] = link._cache * n
resolve_outflows(l, ti, cache) ==
    CASE kind[l.source] = "source" ->
             \* SourceCompartment.resolve_outflows: only outlinks[0] is written
             IF l = outlinks(l.source)[1] THEN cache[l] ELSE link_vals[l][ti]
      [] OTHER ->
             LET n == RMul(rescale(SumF(cache, outlinks(l.source))), comp_vals[l.source][ti])
             IN  RMul(cache[l], n)

\* "outflow += link._cache" raises TypeError when a cache was never set
resolve_raises(cache) ==
    \E l \in Links : kind[l.source] = "plain" /\ IsNone(cache[l])

-----------------------------------------------------------------------------
(* Model.update_comps *)

\* Compartment.update: the guard against becoming negative
clamp(v) == IF RLt(Zero, v) THEN v ELSE Zero

\* Compartment.update forgetting the inflows
Compartment_update_outflow_only(c, ti) ==
    IF kind[c] = "source" THEN comp_vals[c][ti]
    ELSE clamp(RSub(comp_vals[c][ti - 1],
                    SumF([l \in Links |-> link_vals[l][ti - 1]], outlinks(c))))

\* Compartment.update / SourceCompartment.update for tick ti
Compartment_update(c, ti) ==
    IF kind[c] = "source" THEN comp_vals[c][ti]
    ELSE LET tr == ti - 1
             f == [l \in Links |-> link_vals[l][tr]]
         IN  clamp(RAdd(RSub(comp_vals[c][tr], SumF(f, outlinks(c))), SumF(f, inlinks(c))))

-----------------------------------------------------------------------------
(* The inputs of a run *)

\* sim_dt
DtSet == {<<1, 2>>, <<1, 1>>}
\* Parameter.timescale of the parameters
TimescaleSet == {<<1, 2>>, <<1, 1>>}
\* the units of a transition parameter out of a plain compartment
PlainUnits == {"duration", "probability", "number"}
\* databook values of "b" (people per year), of "p" and of "q"
BirthData == {<<0, 1>>, <<3, 1>>}
PData == {<<-1, 1>>, <<0, 1>>, <<1, 2>>, <<1, 1>>, <<2, 1>>}
QData == {<<0, 1>>, <<1, 1>>, <<2, 1>>}
\* framework minimum/maximum value of "p"
LimitSet == {NoLimits, <<Zero, One>>}
\* databook targets at t_init, as <<alive, A>>: the last one asks for more people
\* in A than are alive, by less than the tolerance; the one before it by more
Databook == {<<R(4), R(0)>>, <<R(4), R(2)>>, <<R(4), R(4)>>, <<R(4), R(6)>>,
             <<<<7999999, 2000000>>, R(4)>>}

NoCache == [time |-> -1, val |-> NaN]
NoFramework == [comps |-> <<>>]
NoTimed == [rows |-> -1]
NoJunctions == [n |-> 0, vals |-> <<>>, inflow |-> <<>>, outflow |-> <<>>,
                order |-> <<>>, balanced |-> <<>>]
NoPass == [i |-> 0]
NoRun == [cfg |-> <<>>]
NoCharac == [n |-> NaN]
NoSetup == [b |-> <<>>]
NoCancel == [requested |-> FALSE, at |-> -1]
NoSerial == [objs |-> <<>>]
NoOutcome == [pars |-> {}, outcome |-> NaN]
NoCalls == [n |-> 0, trace |-> <<>>]

\* the parts of the state a driver does not use, left out for the names in S
Unused(S) ==
    /\ IF "fwk" \in S THEN TRUE ELSE fwk = NoFramework
    /\ IF "tc" \in S THEN TRUE ELSE tc = NoTimed
    /\ IF "junc" \in S THEN TRUE ELSE junc = NoJunctions
    /\ IF "dyn" \in S THEN TRUE ELSE dyn = NoPass
    /\ IF "upars" \in S THEN TRUE ELSE upars = NoRun
    /\ IF "chr" \in S THEN TRUE ELSE chr = NoCharac
    /\ IF "ini" \in S THEN TRUE ELSE ini = NoSetup
    /\ IF "cancel" \in S THEN TRUE ELSE cancel = NoCancel
    /\ IF "ser" \in S THEN TRUE ELSE ser = NoSerial
    /\ IF "prog" \in S THEN TRUE ELSE prog = NoOutcome
    /\ IF "calls" \in S THEN TRUE ELSE calls = NoCalls

\* the junctions when JunctionCompartment.preallocate raises on the first of
\* them: its vals are filled with 0.0, nothing else has been allocated.
\* "order" is Population.junctions, which __init__ sets to [] and nothing
\* fills; "balanced" lists the junctions update_junctions has called balance on
junctions_at_build(nj) ==
    [n |-> nj,
     vals |-> [j \in 1 .. nj |-> IF j = 1 THEN Zero ELSE NoneVal],
     inflow |-> [j \in 1 .. nj |-> NoneVal],
     outflow |-> [j \in 1 .. nj |-> NoneVal],
     order |-> <<>>,
     balanced |-> <<>>]

-----------------------------------------------------------------------------
(* Model.process: the phases, in the order process() calls them *)

\* what process() executes after the phase at pc; the "phases" driver calls the
\* phase methods in the same order and leaves update_junctions out
next_pc(p) ==
    CASE p = "pars_pre" -> IF driver = "process" THEN "flush" ELSE "pars"
      [] p = "flush" -> "pars"
      [] p = "pars" -> "links"
      [] p = "links" ->
             IF driver = "process" THEN "junctions"
             ELSE IF t_index < NumTicks - 1 THEN "comps" ELSE "done"
      [] p = "junctions" -> IF t_index < NumTicks - 1 THEN "comps" ELSE "done"
      [] p = "comps" -> "pars"
      [] OTHER -> "done"

\* the exception Model.build raises, "none" when it returns: preallocate runs
\* before initialize_compartments, and JunctionCompartment.preallocate calls
\* get_duration_group, which no compartment class defines
build_error(x, nj) ==
    IF nj > 0 THEN "AttributeError"
    ELSE IF BadInitialization(x) THEN "BadInitialization" ELSE "none"

\* the state the engine is in once Model.build has returned or raised
Built(drv, u, ts, d, data, lim, x, nj) ==
    /\ driver = drv
    /\ err = build_error(x, nj)
    /\ pc = IF build_error(x, nj) = "none" THEN "built" ELSE "raised"
    /\ trace = <<>>
    /\ t_index = 0
    /\ dt = d
    /\ units = u
    /\ timescale = [par \in Pars |-> ts]
    /\ limits = [par \in Pars |-> IF par = "p" THEN lim ELSE NoLimits]
    /\ par_vals = [par \in Pars |-> build_par_vals(data[par], One, IF par = "p" THEN lim ELSE NoLimits)]
    /\ comp_vals = IF build_error(x, nj) = "none"
                   THEN initial_comp_vals(x)
                   ELSE [c \in Comps |-> [ti \in Ticks |-> IF kind[c] = "source" THEN Zero ELSE NaN]]
    /\ link_vals = [l \in Links |-> [ti \in Ticks |-> NaN]]
    /\ link_cache = [l \in Links |-> NoneVal]
    /\ sp_cache = [par \in Pars |-> NoCache]
    /\ junc = junctions_at_build(nj)
    /\ Unused({"junc", "prog"})

\* q in number units is paired with p = 0: the flows of a number parameter
\* divide by a population size, and together with a second rescaled outflow
\* the exact fractions outgrow the integers of the model checker
Scenario(up, uq, dp) == uq = "number" => dp = Zero

InitBuilt(drv, JunctionCounts) ==
    \E up \in PlainUnits, uq \in PlainUnits, ts \in TimescaleSet, d \in DtSet,
       db \in BirthData, dp \in PData, dq \in QData, lim \in LimitSet, b \in Databook,
       nj \in JunctionCounts :
        /\ Scenario(up, uq, dp)
        /\ Built(drv,
              [par \in Pars |-> CASE par = "b" -> "number" [] par = "p" -> up [] OTHER -> uq],
              ts, d,
              [par \in Pars |-> CASE par = "b" -> db [] par = "p" -> dp [] OTHER -> dq],
              lim, lstsq(b[1], b[2]), nj)

\* the phase methods are driven on a framework without junctions
Init == InitBuilt("phases", {0}) /\ prog = NoOutcome

\* process(): assert self._t_index == 0, then _update_program_cache (no programs)
ProcessEnter ==
    /\ pc = "built"
    /\ pc' = IF t_index = 0 THEN "pars_pre" ELSE "raised"
    /\ err' = IF t_index = 0 THEN err ELSE "AssertionError"
    /\ UNCHANGED <<driver, trace, t_index, dt, units, timescale, limits, par_vals,
                   comp_vals, link_vals, link_cache, sp_cache, fwk, tc, junc, dyn, upars, chr, ini, cancel, ser, prog, calls>>

\* Model.update_pars for data parameters without programs: par.constrain(ti)
update_pars(par, ti) == constrain(par_vals[par][ti], limits[par])

UpdatePars ==
    /\ pc \in {"pars_pre", "pars"}
    /\ par_vals' = [par \in Pars |-> [par_vals[par] EXCEPT ![t_index] = update_pars(par, t_index)]]
    /\ trace' = Append(trace, <<"update_pars", t_index>>)
    /\ pc' = next_pc(pc)
    /\ UNCHANGED <<driver, err, t_index, dt, units, timescale, limits,
                   comp_vals, link_vals, link_cache, sp_cache, fwk, tc, junc, dyn, upars, chr, ini, cancel, ser, prog, calls>>

\* the caches update_links leaves on the links
update_links_cache(ti) == [l \in Links |-> converted_frac(l, ti)]

\* the link flows update_links leaves at tick ti
update_links(l, ti) == resolve_outflows(l, ti, update_links_cache(ti))

UpdateLinks ==
    /\ pc = "links"
    /\ trace' = Append(trace, <<"update_links", t_index>>)
    /\ IF unknown_units(t_index)
       THEN /\ pc' = "raised"
            /\ err' = "Exception"
            /\ link_cache' = [l \in Links |->
                                 IF before_raise(l.par, t_index) THEN converted_frac(l, t_index)
                                 ELSE link_cache[l]]
            /\ sp_cache' = [par \in Pars |->
                               IF before_raise(par, t_index) /\ calls_source_popsize(par, t_index)
                               THEN [time |-> t_index, val |-> source_popsize(par, t_index)]
                               ELSE sp_cache[par]]
            /\ UNCHANGED link_vals
       ELSE /\ link_cache' = update_links_cache(t_index)
            /\ sp_cache' = [par \in Pars |->
                               IF calls_source_popsize(par, t_index)
                               THEN [time |-> t_index, val |-> source_popsize(par, t_index)]
                               ELSE sp_cache[par]]
            /\ IF resolve_raises(update_links_cache(t_index))
               THEN /\ pc' = "raised"
                    /\ err' = "TypeError"
                    /\ UNCHANGED link_vals
               ELSE /\ pc' = next_pc(pc)
                    /\ err' = err
                    /\ link_vals' = [l \in Links |->
                                        [link_vals[l] EXCEPT ![t_index] = update_links(l, t_index)]]
    /\ UNCHANGED <<driver, t_index, dt, units, timescale, limits, par_vals, comp_vals, fwk, tc, junc, dyn, upars, chr, ini, cancel, ser, prog, calls>>

\* the loop body's first two statements: self._t_index += 1; self.update_comps()
UpdateComps ==
    /\ pc = "comps"
    /\ t_index' = t_index + 1
    /\ comp_vals' = [c \in Comps |->
                        [comp_vals[c] EXCEPT ![t_index + 1] = Compartment_update(c, t_index + 1)]]
    /\ trace' = Append(trace, <<"update_comps", t_index + 1>>)
    /\ pc' = "pars"
    /\ UNCHANGED <<driver, err, dt, units, timescale, limits, par_vals,
                   link_vals, link_cache, sp_cache, fwk, tc, junc, dyn, upars, chr, ini, cancel, ser, prog, calls>>

\* Model.update_junctions: "for j in self.junctions" reads an attribute Model
\* never defines (only Population has a junctions list), so the call raises
\* before any junction is balanced
UpdateJunctions ==
    /\ pc \in {"flush", "junctions"}
    /\ trace' = Append(trace, <<"update_junctions", t_index>>)
    /\ pc' = "raised"
    /\ err' = "AttributeError"
    /\ UNCHANGED <<driver, t_index, dt, units, timescale, limits, par_vals,
                   comp_vals, link_vals, link_cache, sp_cache, fwk, tc, junc, dyn, upars, chr, ini, cancel, ser, prog, calls>>

\* the phase methods called in the order of process(), update_junctions left out
Next == ProcessEnter \/ UpdatePars \/ UpdateLinks \/ UpdateComps

Spec == Init /\ [][Next]_vars

\* program outcomes, per person reached and per step
Outcomes == {<<1, 4>>, <<1, 2>>, One}

\* update_pars with a ProgramSet whose instructions cover the whole run: the
\* outcome replaces the value, a number is annualized with the source
\* population size, and the value is constrained
program_value(par, ti) ==
    constrain(IF par \in prog.pars
              THEN IF units[par] = "number"
                   THEN RMul(prog.outcome, RDiv(source_popsize(par, ti), dt))
                   ELSE prog.outcome
              ELSE par_vals[par][ti],
              limits[par])

UpdateParsPrograms ==
    /\ driver = "outcome" /\ pc \in {"pars_pre", "pars"}
    /\ par_vals' = [par \in Pars |-> [par_vals[par] EXCEPT ![t_index] = program_value(par, t_index)]]
    /\ sp_cache' = [par \in Pars |->
                       IF par \in prog.pars /\ units[par] = "number"
                       THEN [time |-> t_index, val |-> source_popsize(par, t_index)]
                       ELSE sp_cache[par]]
    /\ trace' = Append(trace, <<"update_pars", t_index>>)
    /\ pc' = next_pc(pc)
    /\ UNCHANGED <<driver, err, t_index, dt, units, timescale, limits,
                   comp_vals, link_vals, link_cache, fwk, tc, junc, dyn, upars, chr, ini,
                   cancel, ser, prog, calls>>

\* a run with program outcomes for "p"
InitOutcome ==
    /\ InitBuilt("outcome", {0})
    /\ \E v \in Outcomes : prog = [pars |-> {"p"}, outcome |-> v]

NextOutcome == ProcessEnter \/ UpdateParsPrograms \/ UpdateLinks \/ UpdateComps

SpecOutcome == InitOutcome /\ [][NextOutcome]_vars

\* a run in which the framework gives "p" a format update_links does not know
InitUnits ==
    /\ \E up \in {"unknown", "probability"}, ts \in TimescaleSet, d \in DtSet,
          db \in BirthData, dp \in PData, dq \in QData, b \in Databook :
           Built("units",
                 [par \in Pars |-> CASE par = "b" -> "number" [] par = "p" -> up
                                     [] OTHER -> "probability"],
                 ts, d,
                 [par \in Pars |-> CASE par = "b" -> db [] par = "p" -> dp [] OTHER -> dq],
                 NoLimits, lstsq(b[1], b[2]), 0)
    /\ prog = NoOutcome

SpecUnits == InitUnits /\ [][Next]_vars

\* a caller asks for the run to be cancelled while process() is at tick
\* t_index; process() takes no token and reads no flag, so nothing else changes
Cancel ==
    /\ driver = "phases" /\ pc \in {"pars", "links", "comps"}
    /\ ~cancel.requested
    /\ cancel' = [requested |-> TRUE, at |-> t_index]
    /\ UNCHANGED <<driver, pc, err, trace, t_index, dt, units, timescale, limits, par_vals,
                   comp_vals, link_vals, link_cache, sp_cache, fwk, tc, junc, dyn, upars,
                   chr, ini, ser, prog, calls>>

\* the runs a cancellation is tried on: dt = 1 and no limits
InitCancel == Init /\ dt = One /\ limits["p"] = NoLimits /\ timescale["p"] = One

NextCancel == Next \/ Cancel

SpecCancel == InitCancel /\ [][NextCancel]_vars

\* Model.process() itself, on frameworks with and without junctions; the
\* phases behind the first update_junctions are never reached
InitProcess == InitBuilt("process", 0 .. MaxJunctions) /\ prog = NoOutcome

NextProcess == ProcessEnter \/ UpdatePars \/ UpdateJunctions

SpecProcess == InitProcess /\ [][NextProcess]_vars

\* calls of process() after the first one
MaxReentries == 2

\* process() is called again on a Model whose first process() has returned or
\* raised, or whose phases have been stepped to the end: the entry assertion,
\* then the body as in the first call
ProcessAgain ==
    /\ driver \in {"phases", "process"} /\ pc \in {"done", "raised"} /\ trace # <<>>
    /\ calls.n < MaxReentries
    /\ calls' = [n |-> calls.n + 1, trace |-> trace]
    /\ pc' = IF t_index = 0 THEN "pars_pre" ELSE "raised"
    /\ err' = IF t_index = 0 THEN "none" ELSE "AssertionError"
    /\ UNCHANGED <<driver, trace, t_index, dt, units, timescale, limits, par_vals,
                   comp_vals, link_vals, link_cache, sp_cache, fwk, tc, junc, dyn, upars, chr,
                   ini, cancel, ser, prog>>

InitReentry == Init \/ (InitBuilt("process", {0}) /\ prog = NoOutcome)

NextReentry == ProcessEnter \/ UpdatePars \/ UpdateLinks \/ UpdateComps \/ UpdateJunctions
                   \/ ProcessAgain

SpecReentry == InitReentry /\ [][NextReentry]_vars

-----------------------------------------------------------------------------
(* Framework validation *)

\* the engine variables while no model has been built
NoModel(drv) ==
    /\ driver = drv
    /\ err = "none"
    /\ trace = <<>>
    /\ t_index = 0
    /\ dt = One
    /\ units = [par \in Pars |-> "number"]
    /\ timescale = [par \in Pars |-> One]
    /\ limits = [par \in Pars |-> NoLimits]
    /\ par_vals = [par \in Pars |-> [ti \in Ticks |-> NaN]]
    /\ comp_vals = [c \in Comps |-> [ti \in Ticks |-> NaN]]
    /\ link_vals = [l \in Links |-> [ti \in Ticks |-> NaN]]
    /\ link_cache = [l \in Links |-> NoneVal]
    /\ sp_cache = [par \in Pars |-> NoCache]

\* the compartments of a framework file and the flags of its Compartments sheet
FComps == {"c1", "c2", "c3"}
FKinds == {"plain", "source", "sink", "junction"}
\* the Format column of the Parameters sheet
Formats == {"number", "probability", "duration", "proportion"}
\* the cells of the Transitions sheet a parameter can be marked in
Pairs == {pr \in FComps \X FComps : pr[1] # pr[2]}
LinkLists == UNION {[1 .. n -> Pairs] : n \in 1 .. MaxLinks}

\* from_comps = [x[0] for x in self.transitions[par.name]]
from_comps(f) == [i \in DOMAIN f.links |-> f.links[i][1]]
\* to_comps = [x[1] for x in self.transitions[par.name]]
to_comps(f) == [i \in DOMAIN f.links |-> f.links[i][2]]

\* len(from_comps) != len(set(from_comps))
repeated_from(f) ==
    \E i \in DOMAIN f.links : \E j \in DOMAIN f.links : i # j /\ f.links[i][1] = f.links[j][1]

\* the count _validate keeps of outflows from sources and junctions
n_special_outflow(f) ==
    Cardinality({i \in DOMAIN f.links : f.kinds[from_comps(f)[i]] \in {"source", "junction"}})

\* core ProjectFramework._validate for one transition parameter: whether any
\* of its raise statements or assertions fires
core_validate_raises(f) ==
    \/ repeated_from(f)
    \/ \E i \in DOMAIN f.links :
           LET k == f.kinds[from_comps(f)[i]]
           IN  \/ k = "sink"
               \/ k = "source" /\ f.format # "number"
               \/ k = "junction" /\ f.format # "proportion"
               \/ f.format = "proportion" /\ k # "junction"
    \/ n_special_outflow(f) > 1
    \/ \E i \in DOMAIN f.links : f.kinds[to_comps(f)[i]] = "source"

\* ProjectFramework.validate_specs for one parameter: whether any of its raise
\* statements fires; the absolute quantity types are taken to be "number"
validate_specs_raises(f) ==
    \/ repeated_from(f)
    \/ \E i \in DOMAIN f.links :
           LET kf == f.kinds[f.links[i][1]]
               kt == f.kinds[f.links[i][2]]
           IN  \/ kf = "sink"
               \/ kt = "source"
               \/ kf = "source" /\ (kt = "sink" \/ Len(f.links) > 1 \/ f.format # "number")
               \/ kf = "junction" /\ (Len(f.links) > 1 \/ f.format # "proportion")
               \/ f.format = "proportion" /\ kf # "junction"

verdict(raises) == IF raises THEN "rejected" ELSE "accepted"

InitFramework ==
    /\ NoModel("framework")
    /\ Unused({"fwk"})
    /\ pc = "loaded"
    /\ \E ks \in [FComps -> FKinds], fm \in Formats, ls \in LinkLists :
           fwk = [comps |-> <<"c1", "c2", "c3">>, kinds |-> ks, format |-> fm, links |-> ls,
                  core |-> "pending", specs |-> "pending"]

\* ProjectFramework.__init__ of core/framework.py: self._validate()
Validate ==
    /\ driver = "framework"
    /\ fwk.core = "pending"
    /\ fwk' = [fwk EXCEPT !.core = verdict(core_validate_raises(fwk))]
    /\ UNCHANGED <<driver, pc, err, trace, t_index, dt, units, timescale, limits, par_vals,
                   comp_vals, link_vals, link_cache, sp_cache, tc, junc, dyn, upars, chr, ini, cancel, ser, prog, calls>>

\* the validate_specs of framework.py
ValidateSpecs ==
    /\ driver = "framework"
    /\ fwk.specs = "pending"
    /\ fwk' = [fwk EXCEPT !.specs = verdict(validate_specs_raises(fwk))]
    /\ UNCHANGED <<driver, pc, err, trace, t_index, dt, units, timescale, limits, par_vals,
                   comp_vals, link_vals, link_cache, sp_cache, tc, junc, dyn, upars, chr, ini, cancel, ser, prog, calls>>

NextFramework == Validate \/ ValidateSpecs

SpecFramework == InitFramework /\ [][NextFramework]_vars

\* the parameter has a link out of a source compartment
has_source_link(f) == \E i \in DOMAIN f.links : f.kinds[f.links[i][1]] = "source"

\* the conditions update_links relies on: proportion parameters flow out of
\* junctions only, and a parameter with a link out of a source is in number
\* units and has that link alone
links_well_formed(f) ==
    /\ f.format = "proportion" =>
           \A i \in DOMAIN f.links : f.kinds[f.links[i][1]] = "junction"
    /\ has_source_link(f) => (f.format = "number" /\ Len(f.links) = 1)

\* C9: every framework the validation accepts has proportion parameters only
\* out of junctions, and every parameter with a link out of a source in number
\* units with exactly one link
C9_ValidatedFrameworks ==
    (driver = "framework" /\ fwk.core = "accepted") => links_well_formed(fwk)

-----------------------------------------------------------------------------
(* A timed compartment and its duration parameter *)

\* databook value of the duration parameter, its y-factor, its timescale
TimedData == {<<1, 2>>, <<1, 1>>, <<2, 1>>, <<3, 1>>}
ScaleFactors == {<<1, 2>>, <<1, 1>>, <<2, 1>>}
TimedTimescales == {<<1, 2>>, <<1, 1>>, <<2, 1>>}
TimedDts == {<<1, 4>>, <<1, 2>>, <<1, 1>>}

\* TimedCompartment.preallocate:
\* self.duration = parameter.vals[0] * parameter.timescale * parameter.scale_factor
TimedCompartment_duration(vals0, ts, scale_factor) == RMul(RMul(vals0, ts), scale_factor)

\* TimedCompartment.preallocate: the rows of _vals, math.ceil(self.duration/dt)
TimedCompartment_rows(duration, d) == Ceil(RDiv(duration, d))

InitTimed ==
    /\ NoModel("timed")
    /\ Unused({"tc"})
    /\ pc = "new"
    /\ \E data \in TimedData, sf \in ScaleFactors, ts \in TimedTimescales, d \in TimedDts :
           tc = [data |-> data, scale_factor |-> sf, timescale |-> ts, dt |-> d,
                 vals0 |-> NaN, duration |-> NaN, rows |-> -1]

\* Model.build, the parameter loop: par.vals = interpolate(...) * par.scale_factor
BuildTimedPar ==
    /\ driver = "timed" /\ pc = "new"
    /\ tc' = [tc EXCEPT !.vals0 = build_par_vals(tc.data, tc.scale_factor, NoLimits)[0]]
    /\ pc' = "pars_built"
    /\ UNCHANGED <<driver, err, trace, t_index, dt, units, timescale, limits, par_vals,
                   comp_vals, link_vals, link_cache, sp_cache, fwk, junc, dyn, upars, chr, ini, cancel, ser, prog, calls>>

\* Model.build, the preallocation loop: TimedCompartment.preallocate(self.t, self.dt)
TimedPreallocate ==
    /\ driver = "timed" /\ pc = "pars_built"
    /\ tc' = [tc EXCEPT
                 !.duration = TimedCompartment_duration(tc.vals0, tc.timescale, tc.scale_factor),
                 !.rows = TimedCompartment_rows(
                              TimedCompartment_duration(tc.vals0, tc.timescale, tc.scale_factor),
                              tc.dt)]
    /\ pc' = "preallocated"
    /\ UNCHANGED <<driver, err, trace, t_index, dt, units, timescale, limits, par_vals,
                   comp_vals, link_vals, link_cache, sp_cache, fwk, junc, dyn, upars, chr, ini, cancel, ser, prog, calls>>

NextTimed == BuildTimedPar \/ TimedPreallocate

SpecTimed == InitTimed /\ [][NextTimed]_vars

\* C10: the rows preallocate gives a timed compartment number
\* ceil(duration * timescale / dt), duration being the databook value with the
\* scale factor applied once
C10_RowCount ==
    (driver = "timed" /\ pc = "preallocated") =>
        tc.rows = Ceil(RDiv(RMul(RMul(tc.data, tc.scale_factor), tc.timescale), tc.dt))

-----------------------------------------------------------------------------
(* Population.build, third pass: which function parameters are dynamic *)

\* the engine variables, which the passes below leave alone
engine == <<driver, err, trace, t_index, dt, units, timescale, limits, par_vals,
            comp_vals, link_vals, link_cache, sp_cache>>

\* three parameters of a framework; "a" may use "b", "b" may use "c", and each
\* may use the size of a compartment
DPars == {"a", "b", "c"}
DOrders == {o \in [1 .. 3 -> DPars] : \A i \in 1 .. 3 : \A j \in 1 .. 3 : i # j => o[i] # o[j]}

\* what the Parameters sheet says of one parameter: no function ("data"), a
\* function ("fcn"), a function taken as a derivative ("deriv"), or a
\* population aggregation ("agg"); whether it is marked in the Transitions
\* sheet; and the names its function uses
ParSpec(kinds, depsets) ==
    {[kind |-> k, links |-> l, deps |-> d] : k \in kinds, l \in BOOLEAN, d \in depsets}
DataSpecs == ParSpec({"data", "agg"}, {{}})
DSpecs ==
    [a : DataSpecs \cup ParSpec({"fcn", "deriv"}, SUBSET {"comp", "b"}),
     b : DataSpecs \cup ParSpec({"fcn"}, SUBSET {"comp", "c"}),
     c : DataSpecs \cup ParSpec({"fcn"}, SUBSET {"comp"})]

\* a Parameter as __init__ leaves it
NewFlags == [fcn |-> FALSE, is_dynamic |-> FALSE, precompute |-> FALSE]

\* Parameter.set_dynamic(progset) on parameter q, given the flags of all
\* parameters; the result is the flags after the call and its recursive calls
RECURSIVE set_dynamic(_, _, _, _)
set_dynamic(cfg, flags, q, progset) ==
    IF ~flags[q].fcn \/ flags[q].is_dynamic \/ flags[q].precompute THEN flags
    ELSE LET \* self.deps is only filled for functions that are no aggregation
             deps == IF cfg[q].kind = "agg" THEN {} ELSE cfg[q].deps
             pdeps == deps \ {"comp"}
             \* dep.set_dynamic() is called without the progset
             below == IF pdeps = {} THEN flags
                      ELSE set_dynamic(cfg, flags, CHOOSE d \in pdeps : TRUE, {})
             dynamic ==
                 \/ cfg[q].kind \in {"agg", "deriv"}
                 \/ "comp" \in deps
                 \/ \E d \in pdeps : below[d].is_dynamic \/ d \in progset
         IN  [below EXCEPT ![q] = [fcn |-> TRUE, is_dynamic |-> dynamic,
                                   precompute |-> ~dynamic]]

\* Parameter.set_fcn(framework, fcn_str, progset)
set_fcn(cfg, flags, q, progset) ==
    LET named == [flags EXCEPT ![q].fcn = TRUE]
    IN  IF cfg[q].links \/ cfg[q].kind = "deriv"
        THEN set_dynamic(cfg, named, q, progset)
        ELSE named

InitDynamic ==
    /\ NoModel("dynamic")
    /\ Unused({"dyn"})
    /\ pc = "third_pass"
    /\ \E o \in DOrders, cfg \in DSpecs, ps \in {{}, {"b"}, {"c"}} :
           dyn = [i |-> 1, order |-> o, cfg |-> cfg, progset |-> ps,
                  flags |-> [q \in DPars |-> NewFlags]]

\* one turn of "for par in self.pars": set_fcn if the parameter has a function
SetFcn ==
    /\ driver = "dynamic" /\ pc = "third_pass"
    /\ LET q == dyn.order[dyn.i]
       IN  dyn' = [dyn EXCEPT
                      !.i = dyn.i + 1,
                      !.flags = IF dyn.cfg[q].kind = "data" THEN dyn.flags
                                ELSE set_fcn(dyn.cfg, dyn.flags, q, dyn.progset)]
    /\ pc' = IF dyn.i = 3 THEN "built" ELSE pc
    /\ UNCHANGED <<engine, fwk, tc, junc, upars, chr, ini, cancel, ser, prog, calls>>

NextDynamic == SetFcn

SpecDynamic == InitDynamic /\ [][NextDynamic]_vars

\* whether the function of q uses, directly or through other parameters, a
\* compartment, a dynamic parameter or a parameter a program overrides
RECURSIVE depends_on_run(_, _, _)
depends_on_run(cfg, q, progset) ==
    /\ cfg[q].kind \in {"fcn", "deriv"}
    /\ \/ "comp" \in cfg[q].deps
       \/ \E d \in cfg[q].deps \ {"comp"} :
              \/ d \in progset
              \/ cfg[d].kind \in {"agg", "deriv"}
              \/ depends_on_run(cfg, d, progset)

\* the selection rule for a parameter with a function
rule_dynamic(cfg, q, progset) ==
    \/ cfg[q].links /\ depends_on_run(cfg, q, progset)
    \/ cfg[q].kind \in {"agg", "deriv"}

\* C11: once the third pass is over, every function parameter that drives
\* links is marked dynamic exactly when the selection rule says so and
\* precompute otherwise, whatever the declaration order
C11_DynamicSelection ==
    (driver = "dynamic" /\ pc = "built") =>
        \A q \in DPars :
            (dyn.cfg[q].kind # "data" /\ dyn.cfg[q].links) =>
                /\ dyn.flags[q].is_dynamic = rule_dynamic(dyn.cfg, q, dyn.progset)
                /\ dyn.flags[q].precompute = ~rule_dynamic(dyn.cfg, q, dyn.progset)

-----------------------------------------------------------------------------
(* Model.update_pars on parameters with functions, aggregations, derivatives *)
(* and programs: two populations, the parameters "x" and "y" in either      *)
(* declaration order, "y" driving one link out of a compartment             *)

UNames == {"x", "y"}
UPops == 1 .. 2
UOrders == {<<"x", "y">>, <<"y", "x">>}

\* the Parameters sheet: "x" has data or a function of the compartment and
\* drives no link; "y" drives a link and has data, a function of the
\* compartment or of "x", an aggregation of "x" over the populations, or a
\* derivative given by the compartment
XSpecs == {[kind |-> "data", links |-> FALSE, deps |-> {}],
           [kind |-> "fcn", links |-> FALSE, deps |-> {"comp"}]}
YSpecs == {[kind |-> "data", links |-> TRUE, deps |-> {}],
           [kind |-> "fcn", links |-> TRUE, deps |-> {"comp"}],
           [kind |-> "fcn", links |-> TRUE, deps |-> {"x"}],
           [kind |-> "agg", links |-> TRUE, deps |-> {}],
           [kind |-> "deriv", links |-> TRUE, deps |-> {"comp"}]}
AggFcns == {"TGT_POP_SUM", "TGT_POP_AVG"}
\* databook values; a parameter with a function may have none (NaN)
XValues == {<<2, 1>>}
YValues == {<<1, 2>>, <<3, 1>>}
\* skip_function of "y": none, or a (start, stop) pair of years
NoSkip == <<>>
SkipSet == {NoSkip, <<One, One>>, <<Zero, One>>}
\* the programs: no ProgramSet, a ProgramSet with an outcome for "y" in
\* population 1 but no instructions, the same with instructions for all or
\* part of the run, and a ProgramSet with an outcome for "x" in population 1
NoPrograms == [pars |-> {}, instructions |-> FALSE, start_year |-> Zero,
               stop_year |-> Zero, outcome |-> NaN]
ProgramRuns ==
    {NoPrograms,
     [pars |-> {"y"}, instructions |-> FALSE, start_year |-> Zero,
      stop_year |-> Zero, outcome |-> R(2)],
     [pars |-> {"y"}, instructions |-> TRUE, start_year |-> Zero,
      stop_year |-> R(NumTicks), outcome |-> R(2)],
     [pars |-> {"y"}, instructions |-> TRUE, start_year |-> One,
      stop_year |-> One, outcome |-> R(2)],
     [pars |-> {"x"}, instructions |-> TRUE, start_year |-> One,
      stop_year |-> One, outcome |-> R(2)]}
\* self.t[ti], the simulation starting in year 0
tvec(c, ti) == RMul(R(ti), c.dt)

\* the size at tick ti of the compartment of population p, as the other
\* phases leave it: p people at tick 0 and one more at every tick
comp_size(c, p, ti) == R(p + ti)

\* skip_function[0] <= t <= skip_function[1]
in_window(w, t) == w # NoSkip /\ RLe(w[1], t) /\ RLe(t, w[2])

\* the values and flags of one run before Model.build preallocates the
\* parameters: Variable.__init__ leaves vals at None
NewRun(flags) ==
    [flags |-> flags,
     vals |-> [q \in UNames |-> [p \in UPops |-> [ti \in Ticks |-> NoneVal]]],
     dx |-> [q \in UNames |-> [p \in UPops |-> NoneVal]],
     evals |-> {}, over |-> {}, log |-> <<>>, err |-> "none"]

\* a step of a run is skipped once an exception has been raised
Try(m, m2) == IF m.err # "none" THEN m ELSE m2

\* self._fcn(**dep_vals): the function is the name of its one dependency
fcn(c, m, q, p, ti) ==
    LET d == CHOOSE d \in c.spec[q].deps : TRUE
    IN  IF d = "comp" THEN comp_size(c, p, ti) ELSE m.vals[d][p][ti]

\* Parameter.update(ti) for a scalar ti; reading a dependency that has not
\* been preallocated yet subscripts None
Parameter_update(c, m, q, p, ti) ==
    IF c.spec[q].kind \in {"data", "agg"} THEN m
    ELSE IF in_window(c.skip[q], tvec(c, ti)) THEN m
    ELSE IF IsNone(fcn(c, m, q, p, ti)) THEN [m EXCEPT !.err = "TypeError"]
    ELSE LET v == RMul(c.scale[q], fcn(c, m, q, p, ti))
             m2 == [m EXCEPT !.evals = @ \cup {<<q, p, ti>>}]
         IN  IF c.spec[q].kind = "deriv"
             THEN [m2 EXCEPT !.dx[q][p] = v]
             ELSE [m2 EXCEPT !.vals[q][p][ti] = v]

\* Parameter.update() for all time points: the ticks outside the skip window
RECURSIVE update_all(_, _, _, _, _)
update_all(c, m, q, p, ti) ==
    IF ti = NumTicks THEN m
    ELSE update_all(c, Try(m, Parameter_update(c, m, q, p, ti)), q, p, ti + 1)

\* Parameter.constrain() for all time points
RECURSIVE constrain_all(_, _, _, _, _)
constrain_all(c, m, q, p, ti) ==
    IF ti = NumTicks THEN m
    ELSE constrain_all(c, [m EXCEPT !.vals[q][p][ti] = constrain(@, c.lim[q])], q, p, ti + 1)

\* Model.build for one Parameter: the databook values, the precomputed
\* function, the limits
build_parameter(c, m, q, p) ==
    LET m1 == IF IsNaN(c.data[q]) THEN [m EXCEPT !.vals[q][p] = [ti \in Ticks |-> NaN]]
              ELSE [m EXCEPT !.vals[q][p] = [ti \in Ticks |-> RMul(c.data[q], c.scale[q])]]
        m2 == IF m1.flags[q].fcn /\ m1.flags[q].precompute
              THEN update_all(c, m1, q, p, 0) ELSE m1
    IN  Try(m2, constrain_all(c, m2, q, p, 0))

\* Population.build's third pass for the parameters of position i onwards
RECURSIVE third_pass(_, _, _)
third_pass(c, flags, i) ==
    IF i > Len(c.order) THEN flags
    ELSE LET q == c.order[i]
         IN  third_pass(c, IF c.spec[q].kind = "data" THEN flags
                           ELSE set_fcn(c.spec, flags, q, c.prog.pars), i + 1)

\* Model.build: the argument of an aggregation is flagged as a dependency
flag_aggregated(c, flags) ==
    IF c.spec["y"].kind = "agg" THEN set_dynamic(c.spec, flags, "x", c.prog.pars)
    ELSE flags

\* Model.build: the parameters of position i onwards, in framework order
RECURSIVE build_from(_, _, _)
build_from(c, m, i) ==
    IF i > Len(c.order) THEN m
    ELSE LET m1 == Try(m, build_parameter(c, m, c.order[i], 1))
         IN  build_from(c, Try(m1, build_parameter(c, m1, c.order[i], 2)), i + 1)

Model_build(c) ==
    build_from(c, NewRun(flag_aggregated(c, third_pass(c, [q \in UNames |-> NewFlags], 1))), 1)

\* update_pars overwriting at every tick once the programs are active
do_program_overwrite_always(c, ti) == c.prog.pars # {} /\ c.prog.instructions

\* Model._update_program_cache and the test of update_pars
do_program_overwrite(c, ti) ==
    /\ c.prog.pars # {} /\ c.prog.instructions
    /\ RLe(c.prog.start_year, tvec(c, ti)) /\ RLe(tvec(c, ti), c.prog.stop_year)

\* (par.name, par.pop.name) in prog_vals
has_outcome(c, q, p) == q \in c.prog.pars /\ p = 1

\* update_pars: the outcome of the programs replaces the value (the derivative
\* of a derivative parameter), and a number is annualized
program_overwrite(c, m, q, p, ti) ==
    IF ~has_outcome(c, q, p) THEN m
    ELSE LET m1 == [m EXCEPT !.over = @ \cup {<<q, p, ti>>}]
             m2 == IF c.spec[q].kind = "deriv"
                   THEN [m1 EXCEPT !.dx[q][p] = c.prog.outcome]
                   ELSE [m1 EXCEPT !.vals[q][p][ti] = c.prog.outcome]
         IN  IF c.units[q] = "number"
             THEN [m2 EXCEPT !.vals[q][p][ti] = RMul(@, RDiv(comp_size(c, p, ti), c.dt))]
             ELSE m2

\* update_pars: the aggregation of "x" over the populations with weights of
\* one, normalized for an average
aggregated(c, m, ti) ==
    LET total == RAdd(m.vals["x"][1][ti], m.vals["x"][2][ti])
    IN  IF c.aggfcn = "TGT_POP_AVG" THEN RDiv(total, R(2)) ELSE total

pop_aggregation(c, m, q, p, ti) ==
    IF in_window(c.skip[q], tvec(c, ti)) THEN m
    ELSE [m EXCEPT !.vals[q][p][ti] = RMul(c.scale[q], aggregated(c, m, ti))]

\* update_pars: the Euler step of a derivative parameter, and the limits; the
\* step raises a TypeError while _dx is None
restrict(c, m, q, p, ti) ==
    IF c.spec[q].kind = "deriv" /\ ti < NumTicks - 1
    THEN IF IsNone(m.dx[q][p]) THEN [m EXCEPT !.err = "TypeError"]
         ELSE [m EXCEPT !.log = Append(@, <<q, p>>),
                        !.vals[q][p][ti + 1] =
                            constrain(RAdd(m.vals[q][p][ti], RMul(m.dx[q][p], c.dt)), c.lim[q])]
    ELSE [m EXCEPT !.log = Append(@, <<q, p>>),
                   !.vals[q][p][ti] = constrain(@, c.lim[q])]

\* one of the loops "for par in pars" of update_pars, from population p onwards
RECURSIVE for_pars(_, _, _, _, _, _)
for_pars(loop, c, m, q, p, ti) ==
    IF p \notin UPops THEN m
    ELSE for_pars(loop, c,
                  CASE loop = "update" -> Parameter_update(c, m, q, p, ti)
                    [] loop = "overwrite" -> program_overwrite(c, m, q, p, ti)
                    [] loop = "aggregate" -> pop_aggregation(c, m, q, p, ti)
                    [] OTHER -> Try(m, restrict(c, m, q, p, ti)),
                  q, p + 1, ti)

\* update_pars for the parameters of one name, across the populations
update_name(c, m, q, ti) ==
    LET m1 == IF m.flags[q].is_dynamic THEN for_pars("update", c, m, q, 1, ti) ELSE m
        m2 == IF do_program_overwrite(c, ti) THEN for_pars("overwrite", c, m1, q, 1, ti) ELSE m1
        m3 == IF c.spec[q].kind = "agg" THEN for_pars("aggregate", c, m2, q, 1, ti) ELSE m2
    IN  for_pars("restrict", c, m3, q, 1, ti)

\* update_pars: "for par_name in self._par_list", from position i onwards
RECURSIVE update_from(_, _, _, _)
update_from(c, m, i, ti) ==
    IF i > Len(c.order) THEN m
    ELSE update_from(c, Try(m, update_name(c, m, c.order[i], ti)), i + 1, ti)

\* Model.update_pars at tick ti; log keeps the parameters in the order this
\* call went through them
Model_update_pars(c, m, ti) == update_from(c, [m EXCEPT !.log = <<>>], 1, ti)

\* the same inputs without a ProgramSet
without_programs(c) == [c EXCEPT !.prog = NoPrograms]

\* the inputs of a run: units other than probability, a skip window and the
\* aggregation function are varied where update_pars looks at them
UpConfigs ==
    {c \in [order : UOrders, spec : [x : XSpecs, y : YSpecs], aggfcn : AggFcns,
            data : [x : XValues \cup {NaN}, y : YValues],
            scale : [x : {One}, y : {One, R(2)}],
            lim : [x : {NoLimits}, y : LimitSet],
            skip : [x : {NoSkip}, y : SkipSet],
            units : [x : {"probability"}, y : {"probability", "number"}],
            prog : ProgramRuns, dt : DtSet] :
        /\ IsNaN(c.data["x"]) <=> c.spec["x"].kind = "fcn"
        /\ c.spec["y"].kind = "data" => c.skip["y"] = NoSkip
        /\ c.spec["y"].kind # "agg" => c.aggfcn = "TGT_POP_SUM"
        /\ "y" \notin c.prog.pars => c.units["y"] = "probability"}

\* the exception Model.build or a call of update_pars ended with
raised(m) == IF m.err # "none" THEN m.err ELSE err

\* the Model is about to be built, with the programs and without any
InitPars ==
    /\ NoModel("pars")
    /\ Unused({"upars"})
    /\ pc = "new"
    /\ \E c \in UpConfigs :
           upars = [cfg |-> c, run |-> NewRun([q \in UNames |-> NewFlags]),
                    ref |-> NewRun([q \in UNames |-> NewFlags])]

\* Model.__init__: build
ModelBuild ==
    /\ driver = "pars" /\ pc = "new"
    /\ upars' = [upars EXCEPT !.run = Model_build(upars.cfg),
                              !.ref = Model_build(without_programs(upars.cfg))]
    /\ err' = raised(upars'.run)
    /\ pc' = IF upars'.run.err # "none" THEN "raised" ELSE "built"
    /\ UNCHANGED <<driver, trace, t_index, dt, units, timescale, limits, par_vals,
                   comp_vals, link_vals, link_cache, sp_cache, fwk, tc, junc, dyn, chr,
                   ini, cancel, ser, prog, calls>>

\* update_pars at tick ti, with the programs and without any
updated(ti) ==
    [upars EXCEPT !.run = Model_update_pars(upars.cfg, upars.run, ti),
                  !.ref = Model_update_pars(without_programs(upars.cfg), upars.ref, ti)]

\* process(): the first update_pars, at tick 0
ProcessStart ==
    /\ driver = "pars" /\ pc = "built"
    /\ upars' = updated(0)
    /\ err' = raised(upars'.run)
    /\ pc' = IF upars'.run.err # "none" THEN "raised" ELSE "started"
    /\ UNCHANGED <<driver, trace, t_index, dt, units, timescale, limits, par_vals,
                   comp_vals, link_vals, link_cache, sp_cache, fwk, tc, junc, dyn, chr, ini, cancel, ser, prog, calls>>

\* process(): the second update_pars at tick 0, the one that follows the
\* initial flush of the junctions (there are none here)
ProcessRepeat ==
    /\ driver = "pars" /\ pc = "started"
    /\ upars' = updated(0)
    /\ err' = raised(upars'.run)
    /\ pc' = IF upars'.run.err # "none" THEN "raised" ELSE "updated"
    /\ UNCHANGED <<driver, trace, t_index, dt, units, timescale, limits, par_vals,
                   comp_vals, link_vals, link_cache, sp_cache, fwk, tc, junc, dyn, chr, ini, cancel, ser, prog, calls>>

\* process(): self._t_index += 1 and, after update_comps, update_pars
ProcessStep ==
    /\ driver = "pars" /\ pc = "updated" /\ t_index < NumTicks - 1
    /\ t_index' = t_index + 1
    /\ upars' = updated(t_index + 1)
    /\ err' = raised(upars'.run)
    /\ pc' = IF upars'.run.err # "none" THEN "raised" ELSE "updated"
    /\ UNCHANGED <<driver, trace, dt, units, timescale, limits, par_vals,
                   comp_vals, link_vals, link_cache, sp_cache, fwk, tc, junc, dyn, chr, ini, cancel, ser, prog, calls>>

NextPars == ModelBuild \/ ProcessStart \/ ProcessRepeat \/ ProcessStep

SpecPars == InitPars /\ [][NextPars]_vars

\* update_pars has completed at the current tick
ParsUpdated == driver = "pars" /\ pc \in {"started", "updated"}

\* lo <= v <= hi
within(v, lim) == RLe(lim[1], v) /\ RLe(v, lim[2])

\* C12: once update_pars has completed at a tick, the value at that tick of
\* every parameter with limits lies within the limits, whether the parameter
\* has data, is precomputed, dynamic, an aggregation or a derivative, and
\* whether or not the programs overwrote it
C12_WithinLimits ==
    ParsUpdated =>
        \A q \in UNames : \A p \in UPops :
            upars.cfg.lim[q] # NoLimits =>
                within(upars.run.vals[q][p][t_index], upars.cfg.lim[q])

\* the value Model.build gives a parameter with databook values
data_value(c, q) == constrain(RMul(c.data[q], c.scale[q]), c.lim[q])

\* C13: without programs, at every tick of the skip window of a parameter
\* with a function, an aggregation or a derivative, the function has not been
\* evaluated and the value is the one Model.build took from the databook; at
\* every tick outside the window the function has been evaluated
C13_SkipWindow ==
    (ParsUpdated /\ upars.cfg.prog.pars = {} /\ upars.cfg.skip["y"] # NoSkip) =>
        \A p \in UPops : \A ti \in 0 .. t_index :
            IF in_window(upars.cfg.skip["y"], tvec(upars.cfg, ti))
            THEN /\ <<"y", p, ti>> \notin upars.run.evals
                 /\ upars.run.vals["y"][p][ti] = data_value(upars.cfg, "y")
            ELSE upars.cfg.spec["y"].kind \in {"fcn", "deriv"} =>
                     <<"y", p, ti>> \in upars.run.evals

\* the parameters in framework order, the populations of one name together
declaration_order(c) ==
    << <<c.order[1], 1>>, <<c.order[1], 2>>, <<c.order[2], 1>>, <<c.order[2], 2>> >>

\* C18: update_pars goes through the parameters name by name in declaration
\* order, all populations of a name before the next name, and leaves an
\* aggregation at the current tick with the aggregate of the values its
\* argument has at that tick once the call is over, in either declaration order
C18_AggregationOrder ==
    ParsUpdated =>
        /\ upars.run.log = declaration_order(upars.cfg)
        /\ (upars.cfg.spec["y"].kind = "agg"
              /\ ~in_window(upars.cfg.skip["y"], tvec(upars.cfg, t_index))) =>
               \A p \in UPops :
                   upars.run.vals["y"][p][t_index] =
                       constrain(RMul(upars.cfg.scale["y"],
                                      aggregated(upars.cfg, upars.run, t_index)),
                                 upars.cfg.lim["y"])

\* the conditions for the programs to overwrite parameter q of population p
\* at tick ti: a ProgramSet and instructions, the year within the instructions,
\* an outcome for the pair
overwrite_due(c, q, p, ti) ==
    /\ c.prog.pars # {} /\ c.prog.instructions
    /\ RLe(c.prog.start_year, tvec(c, ti)) /\ RLe(tvec(c, ti), c.prog.stop_year)
    /\ q \in c.prog.pars /\ p = 1

\* the derivative of "y" at tick ti: the program outcome where one is due,
\* the scaled function result of that tick otherwise
dx_at(c, p, ti) ==
    IF overwrite_due(c, "y", p, ti) THEN c.prog.outcome
    ELSE RMul(c.scale["y"], comp_size(c, p, ti))

\* C23: a derivative parameter is dynamic and not precomputed, and after
\* update_pars at a tick before the last its value at the next tick is the
\* value at this tick plus dt times the derivative evaluated at this tick,
\* within the limits
C23_EulerStep ==
    (ParsUpdated /\ upars.cfg.spec["y"].kind = "deriv") =>
        /\ upars.run.flags["y"].is_dynamic /\ ~upars.run.flags["y"].precompute
        /\ t_index < NumTicks - 1 =>
               \A p \in UPops :
                   upars.run.vals["y"][p][t_index + 1] =
                       constrain(RAdd(upars.run.vals["y"][p][t_index],
                                      RMul(dx_at(upars.cfg, p, t_index), upars.cfg.dt)),
                                 upars.cfg.lim["y"])

\* the tick lies in the window of the instructions of a ProgramSet
in_program_window(c, ti) ==
    /\ c.prog.pars # {} /\ c.prog.instructions
    /\ RLe(c.prog.start_year, tvec(c, ti)) /\ RLe(tvec(c, ti), c.prog.stop_year)

-----------------------------------------------------------------------------
(* A Characteristic with two included compartments and a denominator *)

\* np.inf
Infinity == <<1, 0>>

\* the sizes the included compartments and the denominator can take at a tick
IncludeSizes == [a : {Zero, <<1, 2000000>>, R(2)}, b : {Zero, <<1, 2000000>>}]
DenomSizes == {Zero, <<1, 2000000>>, R(4)}

\* the numerator at tick ti: "for comp in self.includes: ... += comp[ti]"
numerator(ti) == RAdd(RAdd(Zero, chr.includes[ti].a), chr.includes[ti].b)

\* Characteristic.update(ti): the value it stores in self._vals[ti]
Characteristic_update(n, d) ==
    IF RLt(Zero, d) THEN RDiv(n, d)
    ELSE IF RLt(n, tolerance) THEN Zero
    ELSE Infinity

\* Characteristic.vals once self._vals is None, for the tick with numerator n
\* and denominator d: the masks are applied one after the other
Characteristic_vals(n, d) ==
    LET vals_zero == RLt(n, tolerance)
        divided == IF RLt(Zero, d) THEN RDiv(n, d) ELSE n
        zeroed == IF vals_zero THEN Zero ELSE divided
    IN  IF RLe(d, Zero) /\ ~vals_zero THEN Infinity ELSE zeroed

\* preallocate has filled _vals with NaN; the compartments of tick 0 are set
InitCharac ==
    /\ NoModel("charac")
    /\ Unused({"chr"})
    /\ pc = "built"
    /\ \E inc \in IncludeSizes, d \in DenomSizes :
           chr = [includes |-> [ti \in Ticks |-> IF ti = 0 THEN inc ELSE [a |-> NaN, b |-> NaN]],
                  denominator |-> [ti \in Ticks |-> IF ti = 0 THEN d ELSE NaN],
                  vals |-> [ti \in Ticks |-> NaN],
                  updated |-> [ti \in Ticks |-> NaN]]

\* update_pars: charac.update(ti) of a dynamic characteristic; "updated"
\* keeps what update stored
CharacUpdate ==
    /\ driver = "charac" /\ pc \in {"built", "comps"}
    /\ LET v == Characteristic_update(numerator(t_index), chr.denominator[t_index])
       IN  chr' = [chr EXCEPT !.vals[t_index] = v, !.updated[t_index] = v]
    /\ pc' = IF t_index < NumTicks - 1 THEN "pars" ELSE "integrated"
    /\ UNCHANGED <<driver, err, trace, t_index, dt, units, timescale, limits, par_vals,
                   comp_vals, link_vals, link_cache, sp_cache, fwk, tc, junc, dyn, upars, ini, cancel, ser, prog, calls>>

\* the next tick: update_comps gives the compartments their sizes
CharacComps ==
    /\ driver = "charac" /\ pc = "pars"
    /\ t_index' = t_index + 1
    /\ \E inc \in IncludeSizes, d \in DenomSizes :
           chr' = [chr EXCEPT !.includes[t_index + 1] = inc, !.denominator[t_index + 1] = d]
    /\ pc' = "comps"
    /\ UNCHANGED <<driver, err, trace, dt, units, timescale, limits, par_vals,
                   comp_vals, link_vals, link_cache, sp_cache, fwk, tc, junc, dyn, upars, ini, cancel, ser, prog, calls>>

\* the end of process(): charac._vals = None, after which Characteristic.vals
\* computes the values from the compartments whenever it is read
CharacWipe ==
    /\ driver = "charac" /\ pc = "integrated"
    /\ chr' = [chr EXCEPT !.vals = [ti \in Ticks |->
                              Characteristic_vals(numerator(ti), chr.denominator[ti])]]
    /\ pc' = "done"
    /\ UNCHANGED <<driver, err, trace, t_index, dt, units, timescale, limits, par_vals,
                   comp_vals, link_vals, link_cache, sp_cache, fwk, tc, junc, dyn, upars, ini, cancel, ser, prog, calls>>

NextCharac == CharacUpdate \/ CharacComps \/ CharacWipe

SpecCharac == InitCharac /\ [][NextCharac]_vars

\* n / d, 0 or infinity, as the rule for a characteristic with a denominator
\* gives it
characteristic_rule(n, d) ==
    IF RLt(Zero, d) THEN RDiv(n, d)
    ELSE IF RLt(n, tolerance) THEN Zero ELSE Infinity

\* C14: for every tick, the value Characteristic.update stored during the
\* integration and the value Characteristic.vals computes after it are both
\* n / d when d > 0, 0 when d <= 0 and n < tolerance, infinity otherwise
C14_CharacteristicValue ==
    (driver = "charac" /\ pc = "done") =>
        \A ti \in Ticks :
            /\ chr.updated[ti] = characteristic_rule(numerator(ti), chr.denominator[ti])
            /\ chr.vals[ti] = chr.updated[ti]

-----------------------------------------------------------------------------
(* Population.initialize_compartments with a plain compartment "A" and a     *)
(* timed compartment "B"; the databook gives "alive" = A + B and "A", and,  *)
(* in a second framework, "B" as well                                        *)

\* the largest number of rows of the timed compartment
MaxRows == 3

\* databook targets <<alive, A, B>> of the framework with three setup
\* quantities: consistent ones, ones that miss each other by 3e-4, 1 and 2
SetupTargets ==
    {<<R(4), a, b>> : a \in {R(0), R(1), R(2)},
                      b \in {R(2), R(3), <<30003, 10000>>, R(4), R(5)}}

\* np.linalg.lstsq for "alive", "A" and "B": the solution of the normal
\* equations (A^T A) x = A^T b with A^T A = [[2, 1], [1, 2]]
lstsq_three(b) ==
    LET e == RDiv(RSub(b[1], RAdd(b[2], b[3])), R(3))
    IN  [c \in {"A", "B"} |-> IF c = "A" THEN RAdd(b[2], e) ELSE RAdd(b[3], e)]

\* x = np.linalg.lstsq(A, b)
solve(b) == IF Len(b) = 2 THEN lstsq(b[1], b[2]) ELSE lstsq_three(b)

\* proposed = np.matmul(A, x)
proposed(b, x) ==
    [i \in 1 .. Len(b) |-> CASE i = 1 -> RAdd(x["A"], x["B"]) [] i = 2 -> x["A"] [] OTHER -> x["B"]]

RAbs(a) == IF a[1] < 0 THEN <<-a[1], a[2]>> ELSE a

RECURSIVE sum_squares(_, _, _)
sum_squares(u, v, i) ==
    IF i > Len(u) THEN Zero
    ELSE RAdd(RMul(RSub(u[i], v[i]), RSub(u[i], v[i])), sum_squares(u, v, i + 1))

\* residual = np.sum((proposed - b) ** 2)
residual(b, x) == sum_squares(proposed(b, x), b, 1)

\* abs(proposed[i] - b[i]) > tolerance for some target
characteristic_tolerence_failed(b, x) ==
    \E i \in 1 .. Len(b) : RLt(tolerance, RAbs(RSub(proposed(b, x)[i], b[i])))

\* the branches of initialize_compartments that raise BadInitialization
initialize_raises(b, x) ==
    IF RLt(tolerance, residual(b, x)) THEN TRUE
    ELSE IF BadInitialization(x) THEN TRUE
    ELSE characteristic_tolerence_failed(b, x)

\* TimedCompartment.__setitem__ giving every row the whole value
TimedCompartment_setitem_undivided(value, rows) == [r \in 1 .. rows |-> value]

\* TimedCompartment.__setitem__(0, value): value / (rows * ones((rows, 1)))
TimedCompartment_setitem(value, rows) == [r \in 1 .. rows |-> RDiv(value, R(rows))]

\* preallocate has filled the compartments with NaN
InitSetup ==
    /\ NoModel("setup")
    /\ Unused({"ini"})
    /\ pc = "preallocated"
    /\ \E b \in SetupTargets \cup {<<d[1], d[2]>> : d \in Databook}, rows \in 1 .. MaxRows :
           ini = [b |-> b, x |-> solve(b), A |-> NaN, B |-> [r \in 1 .. rows |-> NaN]]

\* Population.initialize_compartments
InitializeCompartments ==
    /\ driver = "setup" /\ pc = "preallocated"
    /\ ini' = IF initialize_raises(ini.b, ini.x) THEN ini
              ELSE [ini EXCEPT !.A = initial_value(ini.x["A"]),
                               !.B = TimedCompartment_setitem(initial_value(ini.x["B"]), Len(ini.B))]
    /\ err' = IF initialize_raises(ini.b, ini.x) THEN "BadInitialization" ELSE err
    /\ pc' = IF initialize_raises(ini.b, ini.x) THEN "raised" ELSE "initialized"
    /\ UNCHANGED <<driver, trace, t_index, dt, units, timescale, limits, par_vals,
                   comp_vals, link_vals, link_cache, sp_cache, fwk, tc, junc, dyn, upars, chr, cancel, ser, prog, calls>>

NextSetup == InitializeCompartments

SpecSetup == InitSetup /\ [][NextSetup]_vars

\* what the targets computed from x are: alive = A + B, A, and B
computed(i) == CASE i = 1 -> RAdd(ini.x["A"], ini.x["B"]) [] i = 2 -> ini.x["A"] [] OTHER -> ini.x["B"]

\* the conditions under which the initialization is to be refused
refused ==
    \/ RLt(tolerance, SumF([i \in 1 .. Len(ini.b) |->
               RMul(RSub(computed(i), ini.b[i]), RSub(computed(i), ini.b[i]))],
               [i \in 1 .. Len(ini.b) |-> i]))
    \/ \E c \in {"A", "B"} : RLt(ini.x[c], RSub(Zero, tolerance))
    \/ \E i \in 1 .. Len(ini.b) :
           \/ RLt(tolerance, RSub(computed(i), ini.b[i]))
           \/ RLt(tolerance, RSub(ini.b[i], computed(i)))

\* C15: initialize_compartments raises BadInitialization exactly when the
\* squared residual, a negative solution or a missed target exceeds the
\* tolerance, and then has written no tick-0 value; otherwise A holds
\* max(0, x_A) and every row of the timed compartment B holds max(0, x_B)
\* divided by the number of rows
C15_Initialization ==
    (driver = "setup" /\ pc # "preallocated") =>
        IF refused
        THEN /\ pc = "raised" /\ err = "BadInitialization"
             /\ IsNaN(ini.A) /\ \A r \in DOMAIN ini.B : IsNaN(ini.B[r])
        ELSE /\ pc = "initialized"
             /\ ini.A = RMax(Zero, ini.x["A"])
             /\ \A r \in DOMAIN ini.B : ini.B[r] = RDiv(RMax(Zero, ini.x["B"]), R(Len(ini.B)))
             /\ SumF(ini.B, [r \in 1 .. Len(ini.B) |-> r]) = RMax(Zero, ini.x["B"])

\* the initialization has been accepted and the people of the timed
\* compartment have been spread over several rows
C15_Witness ==
    /\ driver = "setup" /\ pc = "initialized"
    /\ Len(ini.B) > 1
    /\ RLt(Zero, ini.x["B"])
    /\ ini.B[1] = RDiv(ini.x["B"], R(Len(ini.B)))

-----------------------------------------------------------------------------
(* A TimedCompartment between a plain compartment and a sink: one inflow    *)
(* link, and the flush link as its only outflow                              *)

\* people in the timed compartment at tick 0, and arriving during tick 0
TimedSizes == {R(0), R(1), R(2), R(3)}
InflowSizes == {R(0), R(1), R(2)}

\* the compartment after preallocate and initialize_compartments: _vals has
\* one column per tick, and the column of tick 0 holds the initial value split
\* over the rows; the inflow link has its value of tick 0
InitKeyring ==
    /\ NoModel("keyring")
    /\ Unused({"tc"})
    /\ pc = "initialized"
    /\ \E rows \in 1 .. MaxRows, v \in TimedSizes, inflow \in InflowSizes :
           tc = [vals |-> [ti \in Ticks |-> IF ti = 0 THEN TimedCompartment_setitem(v, rows)
                                            ELSE [r \in 1 .. rows |-> NaN]],
                 inflow |-> [ti \in Ticks |-> IF ti = 0 THEN inflow ELSE NaN],
                 flush_cache |-> NoneVal,
                 flush_vals |-> [ti \in Ticks |-> NaN]]

\* TimedCompartment.resolve_outflows(0), called by update_links:
\* flush_link._cache = 0.0, and then, the flush link being a plain Link among
\* the outlinks, "link._vals[:, ti] = n * link._cache" on an object that has
\* no _vals attribute
TimedResolveOutflows ==
    /\ driver = "keyring" /\ pc = "initialized"
    /\ tc' = [tc EXCEPT !.flush_cache = Zero]
    /\ trace' = Append(trace, <<"resolve_outflows", 0>>)
    /\ pc' = "raised"
    /\ err' = "AttributeError"
    /\ UNCHANGED <<driver, t_index, dt, units, timescale, limits, par_vals,
                   comp_vals, link_vals, link_cache, sp_cache, fwk, junc, dyn, upars, chr,
                   ini, cancel, ser, prog, calls>>

\* TimedCompartment.update(1), called by update_comps: the column of tick 0 is
\* copied to tick 1, and then "self.vals[0, ti] -= link[ti]" indexes the
\* one-dimensional array the vals property returns with two indices
TimedUpdate ==
    /\ driver = "keyring" /\ pc = "initialized"
    /\ tc' = [tc EXCEPT !.vals[1] = tc.vals[0]]
    /\ trace' = Append(trace, <<"update", 1>>)
    /\ pc' = "raised"
    /\ err' = "IndexError"
    /\ UNCHANGED <<driver, t_index, dt, units, timescale, limits, par_vals,
                   comp_vals, link_vals, link_cache, sp_cache, fwk, junc, dyn, upars, chr,
                   ini, cancel, ser, prog, calls>>

NextKeyring == TimedResolveOutflows \/ TimedUpdate

SpecKeyring == InitKeyring /\ [][NextKeyring]_vars

\* TimedCompartment.__getitem__: self._vals[:, ti].sum(axis=0)
TimedCompartment_getitem(ti) == SumF(tc.vals[ti], [r \in 1 .. Len(tc.vals[ti]) |-> r])

\* C20: once a timed compartment with exactly one row has been updated to
\* tick 1, it holds the people who flowed in during tick 0 and nobody else
C20_OneRowFlushed ==
    (driver = "keyring" /\ Len(tc.vals[0]) = 1 /\ trace = << <<"update", 1>> >>) =>
        /\ err = "none"
        /\ TimedCompartment_getitem(1) = tc.inflow[0]

\* the column the stated steps give: the flush link leaves row 0, the rows
\* move up by one, the newest row is zeroed and receives the inflow from
\* outside the duration group
keyring_rule(col, flush, inflow) ==
    LET n == Len(col)
        left == [r \in 1 .. n |-> IF r = 1 THEN RSub(col[r], flush) ELSE col[r]]
    IN  [r \in 1 .. n |-> IF r < n THEN left[r + 1] ELSE RAdd(Zero, inflow)]

\* C24: update(1) of a timed compartment whose only outflow is the flush link
\* and whose only inflow comes from outside the duration group completes, and
\* the column of tick 1 is the column of tick 0 less the flush link at tick 0
\* in row 0, shifted up by one, with the inflow of tick 0 in the newest row
C24_KeyringUpdate ==
    (driver = "keyring" /\ trace = << <<"update", 1>> >>) =>
        /\ err = "none"
        /\ tc.vals[1] = keyring_rule(tc.vals[0], tc.flush_vals[0], tc.inflow[0])

RECURSIVE arrivals(_, _)
\* the people who entered the compartment during the ticks from .. to
arrivals(from, to) ==
    IF from > to THEN Zero ELSE RAdd(tc.inflow[from], arrivals(from + 1, to))

\* C27: once update_links or update_comps has run on a timed compartment with
\* R rows, no call has raised, and from tick R on the compartment holds at
\* most the people who entered during the last R ticks: whoever was there R
\* ticks earlier has left
C27_NobodyOverstays ==
    (driver = "keyring" /\ trace # <<>>) =>
        /\ err = "none"
        /\ \A ti \in Ticks :
               ti >= Len(tc.vals[0]) =>
                   /\ \A r \in 1 .. Len(tc.vals[ti]) : IsNum(tc.vals[ti][r])
                   /\ RLe(TimedCompartment_getitem(ti), arrivals(ti - Len(tc.vals[0]), ti - 1))

-----------------------------------------------------------------------------
(* Model.unlink and Model.relink on one population: compartments "A", "B"   *)
(* (plain, or timed with duration parameter "q") and the sink "S", the      *)
(* characteristic "ch", the parameters "p" (A to B, and A to S), "q" (B to  *)
(* S) and the function parameter "f"                                         *)

\* calls of unlink and relink made on one Model
MaxCalls == 3

\* a reference to an object, the id that stands for it while unlinked, None
Ref(x) == <<"obj", x>>
Id(x) == <<"id", x>>
NoneRef == <<"none", "">>

\* the dependency of the function of "f", the denominator of "ch"
FDeps == {<<>>, <<"A">>, <<"ch">>, <<"p">>, <<"A,B,p:flow">>}
Denominators == {"", "A"}

\* framework.transitions, parameter by parameter
SerialTransitions(c) ==
    << <<"A", "B", "p">> >> \o (IF c.two THEN << <<"A", "S", "p">> >> ELSE <<>>)
        \o << <<"B", "S", "q">> >>

\* Link.__init__: the id of a link
link_id(t) == t[1] \o "," \o t[2] \o "," \o t[3] \o ":flow"

RECURSIVE link_refs(_, _, _)
\* the links among ts whose field k (1 source, 2 dest, 3 parameter) is x
link_refs(ts, k, x) ==
    IF ts = <<>> THEN <<>>
    ELSE (IF Head(ts)[k] = x THEN <<Ref(link_id(Head(ts)))>> ELSE <<>>) \o link_refs(Tail(ts), k, x)

RECURSIVE refs_of(_)
refs_of(xs) == IF xs = <<>> THEN <<>> ELSE <<Ref(Head(xs))>> \o refs_of(Tail(xs))

RECURSIVE link_ids(_)
link_ids(ts) == IF ts = <<>> THEN <<>> ELSE <<link_id(Head(ts))>> \o link_ids(Tail(ts))

\* pop.comps + pop.characs + pop.pars + pop.links
SerialOrder(c) == <<"A", "B", "S", "ch", "p", "q", "f">> \o link_ids(SerialTransitions(c))

\* an object without references
NewObject(cls) ==
    [cls |-> cls, pop |-> Ref("pop"), outlinks |-> <<>>, inlinks |-> <<>>,
     flush_link |-> NoneRef, includes |-> <<>>, denominator |-> NoneRef, links |-> <<>>,
     deps |-> <<>>, parameter |-> NoneRef, source |-> NoneRef, dest |-> NoneRef]

\* the link TimedCompartment.connect makes the flush link
is_flush(c, t) == c.timed /\ t = <<"B", "S", "q">>

\* Population.build: the compartment x and the links connect has wired to it
BuildCompartment(c, x) ==
    [NewObject(IF x = "S" THEN "SinkCompartment"
               ELSE IF x = "B" /\ c.timed THEN "TimedCompartment" ELSE "Compartment")
        EXCEPT !.outlinks = link_refs(SerialTransitions(c), 1, x),
               !.inlinks = link_refs(SerialTransitions(c), 2, x),
               !.flush_link = IF x = "B" /\ c.timed THEN Ref(link_id(<<"B", "S", "q">>))
                              ELSE NoneRef]

\* Population.build: add_include and add_denom
BuildCharacteristic(c) ==
    [NewObject("Characteristic")
        EXCEPT !.includes = <<Ref("A"), Ref("B")>>,
               !.denominator = IF c.denom = "" THEN NoneRef ELSE Ref(c.denom)]

\* Population.build and Link.create: the parameter x with its links (none for
\* the duration parameter of a timed compartment) and dependencies
BuildParameter(c, x) ==
    [NewObject("Parameter")
        EXCEPT !.links = IF x = "q" /\ c.timed THEN <<>>
                         ELSE link_refs(SerialTransitions(c), 3, x),
               !.deps = IF x = "f" THEN refs_of(c.deps) ELSE <<>>]

\* Link.__init__, and TimedCompartment.connect for the flush link
BuildLink(c, t) ==
    [NewObject("Link")
        EXCEPT !.parameter = IF is_flush(c, t) THEN NoneRef ELSE Ref(t[3]),
               !.source = Ref(t[1]),
               !.dest = Ref(t[2])]

RECURSIVE BuildLinks(_, _, _)
BuildLinks(c, ts, objs) ==
    IF ts = <<>> THEN objs
    ELSE BuildLinks(c, Tail(ts), [objs EXCEPT ![link_id(Head(ts))] = BuildLink(c, Head(ts))])

\* the objects of the population after Model.build
SerialBuild(c) ==
    LET ids == {SerialOrder(c)[i] : i \in DOMAIN SerialOrder(c)}
        base == [x \in ids |->
                    IF x \in {"A", "B", "S"} THEN BuildCompartment(c, x)
                    ELSE IF x = "ch" THEN BuildCharacteristic(c)
                    ELSE IF x \in {"p", "q", "f"} THEN BuildParameter(c, x)
                    ELSE NewObject("Link")]
    IN  BuildLinks(c, SerialTransitions(c), base)

\* the reference fields the unlink and relink of a class walk, in their order
reference_fields(cls) ==
    CASE cls \in {"Compartment", "SinkCompartment"} -> <<"pop", "outlinks", "inlinks">>
      [] cls = "TimedCompartment" -> <<"pop", "outlinks", "inlinks", "flush_link">>
      [] cls = "Characteristic" -> <<"pop", "includes", "denominator">>
      [] cls = "Parameter" -> <<"pop", "links", "deps">>
      [] OTHER -> <<"pop", "parameter", "source", "dest">>

ListFields == {"outlinks", "inlinks", "includes", "links", "deps"}
\* fields that are only swapped when set
GuardedFields == {"flush_link", "denominator"}

\* what a call expects in a field, leaves in it, and raises otherwise:
\* unlink reads x.id (x.name for the population), relink looks up objs[x]
expects(call) == IF call = "unlink" THEN "obj" ELSE "id"
leaves(call) == IF call = "unlink" THEN "id" ELSE "obj"
raises(call) == IF call = "unlink" THEN "AttributeError" ELSE "KeyError"

RECURSIVE swap_list(_, _)
swap_list(v, call) ==
    IF v = <<>> THEN <<>> ELSE << <<leaves(call), Head(v)[2]>> >> \o swap_list(Tail(v), call)

RECURSIVE Variable_swap(_, _, _)
\* unlink or relink of one object, field after field, up to the first
\* exception
Variable_swap(o, fs, call) ==
    IF fs = <<>> THEN [o |-> o, err |-> "none"]
    ELSE LET f == Head(fs)
             v == o[f]
             skipped == f \in GuardedFields /\ v = NoneRef
             bad == IF f \in ListFields THEN \E i \in DOMAIN v : v[i][1] # expects(call)
                    ELSE ~skipped /\ v[1] # expects(call)
             new == IF f \in ListFields THEN swap_list(v, call)
                    ELSE IF skipped THEN v ELSE <<leaves(call), v[2]>>
         IN  IF bad THEN [o |-> o, err |-> raises(call)]
             ELSE Variable_swap([o EXCEPT ![f] = new], Tail(fs), call)

RECURSIVE for_objects(_, _, _)
\* "for obj in self.comps + self.characs + self.pars + self.links"
for_objects(objs, order, call) ==
    IF order = <<>> THEN [objs |-> objs, err |-> "none"]
    ELSE LET r == Variable_swap(objs[Head(order)], reference_fields(objs[Head(order)].cls), call)
             objs1 == [objs EXCEPT ![Head(order)] = r.o]
         IN  IF r.err # "none" THEN [objs |-> objs1, err |-> r.err]
             ELSE for_objects(objs1, Tail(order), call)

\* Population.unlink and Population.relink
Population_swap(s, call) ==
    IF s.is_linked # (call = "unlink") THEN [s EXCEPT !.err = "none"]
    ELSE LET r == for_objects(s.objs, SerialOrder(s.cfg), call)
         IN  [s EXCEPT !.objs = r.objs, !.err = r.err,
                       !.is_linked = IF r.err = "none" THEN call = "relink" ELSE @]

\* Model.unlink
Model_unlink(s) ==
    IF ~s.vars_by_pop THEN [s EXCEPT !.err = "none"]
    ELSE LET s1 == Population_swap(s, "unlink")
         IN  IF s1.err # "none" THEN s1 ELSE [s1 EXCEPT !.vars_by_pop = FALSE]

\* Model.relink
Model_relink(s) ==
    LET s1 == Population_swap(s, "relink")
    IN  IF s1.err # "none" THEN s1 ELSE [s1 EXCEPT !.vars_by_pop = TRUE]

\* Model.build has returned
InitSerial ==
    /\ NoModel("serial")
    /\ Unused({"ser"})
    /\ pc = "built"
    /\ \E timed \in BOOLEAN, two \in BOOLEAN, deps \in FDeps, denom \in Denominators :
           LET c == [timed |-> timed, two |-> two, deps |-> deps, denom |-> denom]
           IN  ser = [cfg |-> c, objs |-> SerialBuild(c), built |-> SerialBuild(c),
                      is_linked |-> TRUE, vars_by_pop |-> TRUE, err |-> "none"]

\* a call of Model.unlink
Unlink ==
    /\ driver = "serial" /\ Len(trace) < MaxCalls
    /\ ser' = Model_unlink(ser)
    /\ err' = ser'.err
    /\ pc' = IF ser'.err # "none" THEN "raised" ELSE "unlinked"
    /\ trace' = Append(trace, <<"unlink", 0>>)
    /\ UNCHANGED <<driver, t_index, dt, units, timescale, limits, par_vals,
                   comp_vals, link_vals, link_cache, sp_cache, fwk, tc, junc, dyn, upars, chr,
                   ini, cancel, prog, calls>>

\* a call of Model.relink
Relink ==
    /\ driver = "serial" /\ Len(trace) < MaxCalls
    /\ ser' = Model_relink(ser)
    /\ err' = ser'.err
    /\ pc' = IF ser'.err # "none" THEN "raised" ELSE "relinked"
    /\ trace' = Append(trace, <<"relink", 0>>)
    /\ UNCHANGED <<driver, t_index, dt, units, timescale, limits, par_vals,
                   comp_vals, link_vals, link_cache, sp_cache, fwk, tc, junc, dyn, upars, chr,
                   ini, cancel, prog, calls>>

NextSerial == Unlink \/ Relink

SpecSerial == InitSerial /\ [][NextSerial]_vars

RECURSIVE all_ids(_)
all_ids(v) == IF v = <<>> THEN <<>> ELSE <<Id(Head(v)[2])>> \o all_ids(Tail(v))

\* an object with every reference it holds replaced by the id
unlinked(o) ==
    [f \in DOMAIN o |->
        IF f = "cls" THEN o[f]
        ELSE IF f \in ListFields THEN all_ids(o[f])
        ELSE IF o[f] = NoneRef THEN NoneRef ELSE Id(o[f][2])]

\* C21: no call of unlink or relink raises; after a relink every reference is
\* the one Model.build made, after an unlink every reference has become the
\* id of the same object, whatever calls came before (unlink then relink is
\* a round trip, a repeated unlink or relink changes nothing)
C21_RoundTrip ==
    driver = "serial" =>
        /\ err = "none"
        /\ pc \in {"built", "relinked"} => ser.objs = ser.built
        /\ pc = "unlinked" =>
               ser.objs = [x \in DOMAIN ser.built |-> unlinked(ser.built[x])]

-----------------------------------------------------------------------------
(* What has been computed so far in a run *)

\* update_links has written the link flows of tick ti
LinksDone(ti) ==
    \/ ti < t_index
    \/ ti = t_index /\ pc \in {"junctions", "comps", "done"}

\* the link caches are those update_links computed at the current tick
CacheCurrent == pc \in {"junctions", "comps", "done"}

PlainComps == SelectSeq(CompOrder, LAMBDA c : kind[c] = "plain")
NonSourceComps == SelectSeq(CompOrder, LAMBDA c : kind[c] # "source")
SourceLinks == SelectSeq(PopLinks, LAMBDA l : kind[l.source] = "source")
SinkLinks == SelectSeq(PopLinks, LAMBDA l : kind[l.dest] = "sink")

\* sum of the compartments in cs at tick ti
popsize(cs, ti) == SumF([c \in Comps |-> comp_vals[c][ti]], cs)
\* sum of the flows of the links in ls at tick ti
flow(ls, ti) == SumF([l \in Links |-> link_vals[l][ti]], ls)

-----------------------------------------------------------------------------
(* Properties of the phases *)

Emptied(c) == flow(outlinks(c), t_index) = comp_vals[c][t_index]

\* C5: after resolve_outflows on a plain compartment with cached fractions
\* f_k >= 0, the flows are proportional to the f_k, their sum is at most the
\* size, equal to the size when the f_k sum to 1 or more, and each flow is
\* f_k times the size when they sum to 1 or less
C5_ResolveOutflows ==
    CacheCurrent =>
        \A c \in Comps : kind[c] = "plain" =>
            LET out == outlinks(c)
                size == comp_vals[c][t_index]
                S == SumF(link_cache, out)
                ks == {out[i] : i \in DOMAIN out}
            IN  (\A k \in ks : RLe(Zero, link_cache[k])) =>
                    /\ \A k \in ks : \A j \in ks :
                           RMul(link_vals[k][t_index], link_cache[j]) =
                               RMul(link_vals[j][t_index], link_cache[k])
                    /\ RLe(flow(out, t_index), size)
                    /\ RLe(One, S) => flow(out, t_index) = size
                    /\ RLe(S, One) =>
                           \A k \in ks : link_vals[k][t_index] = RMul(link_cache[k], size)

\* compartment A holds people and its two different fractions sum to more than 1
C5_Witness ==
    /\ CacheCurrent
    /\ RLt(Zero, comp_vals["A"][t_index])
    /\ RLt(One, SumF(link_cache, outlinks("A")))
    /\ RLt(Zero, link_cache[outlinks("A")[1]])
    /\ RLt(link_cache[outlinks("A")[1]], link_cache[outlinks("A")[2]])

\* C6 as stated: a probability parameter equal to 1 empties each of its source
\* compartments in one tick, for every dt and every timescale
C6_ProbabilityOneEmpties ==
    CacheCurrent =>
        \A par \in Pars :
            (units[par] = "probability" /\ par_vals[par][t_index] = One) =>
                \A c \in Comps : (\E i \in DOMAIN par_links(par) : par_links(par)[i].source = c)
                                     => Emptied(c)

\* C6: a probability parameter equal to 1 empties each of its source
\* compartments in one tick when the step is at least the parameter's timescale
C6_ProbabilityOneEmptiesLongStep ==
    CacheCurrent =>
        \A par \in Pars :
            (units[par] = "probability" /\ par_vals[par][t_index] = One
                 /\ RLe(timescale[par], dt)) =>
                \A c \in Comps : (\E i \in DOMAIN par_links(par) : par_links(par)[i].source = c)
                                     => Emptied(c)

\* p is a probability of 1 with a step longer than its timescale, q moves
\* nobody, and A holds people
C6_Witness ==
    /\ CacheCurrent
    /\ units["p"] = "probability" /\ par_vals["p"][t_index] = One
    /\ RLt(timescale["p"], dt)
    /\ par_vals["q"][t_index] = Zero
    /\ RLt(Zero, comp_vals["A"][t_index])
    /\ Emptied("A")

\* the compartments parameter par has a link out of
SourcesOf(par) == {par_links(par)[i].source : i \in DOMAIN par_links(par)}

\* C7 as stated: a duration parameter with val * timescale <= dt, val = 0
\* included, moves the whole of each of its source compartments in that tick
C7_ShortDurationEmpties ==
    CacheCurrent =>
        \A par \in Pars :
            (units[par] = "duration"
                 /\ RLe(RMul(par_vals[par][t_index], timescale[par]), dt)) =>
                \A c \in SourcesOf(par) : Emptied(c)

\* C7: a duration parameter with 0 < val and val * timescale <= dt moves the
\* whole of each of its source compartments in that tick
C7_ShortPositiveDurationEmpties ==
    CacheCurrent =>
        \A par \in Pars :
            (units[par] = "duration"
                 /\ RLt(Zero, par_vals[par][t_index])
                 /\ RLe(RMul(par_vals[par][t_index], timescale[par]), dt)) =>
                \A c \in SourcesOf(par) : Emptied(c)

\* p is a duration of half a timescale unit, no longer than the step, q moves
\* nobody, and A, which holds people, is emptied
C7_Witness ==
    /\ CacheCurrent
    /\ units["p"] = "duration" /\ par_vals["p"][t_index] = <<1, 2>>
    /\ RLe(RMul(par_vals["p"][t_index], timescale["p"]), dt)
    /\ par_vals["q"][t_index] = Zero
    /\ RLt(Zero, comp_vals["A"][t_index])
    /\ Emptied("A")

C26_UnknownUnitsFatal ==
    (driver = "units" /\ units["p"] \notin KnownUnits
         /\ \E k \in 1 .. Len(trace) : trace[k] = <<"update_links", 0>>) =>
        /\ pc = "raised" /\ err = "Exception" /\ t_index = 0
        /\ \A l \in Links : IsNaN(link_vals[l][0])

\* the people in the source compartments of the links of par at tick ti
source_sum(par, ti) == SumF([l \in Links |-> comp_vals[l.source][ti]], par_links(par))

C22_OutcomeRoundTrip ==
    (driver = "outcome" /\ CacheCurrent /\ units["p"] = "number"
         /\ limits["p"] = NoLimits
         /\ RLe(SumF(link_cache, outlinks("A")), One)) =>
        flow(par_links("p"), t_index) = RMul(prog.outcome, comp_vals["A"][t_index])

-----------------------------------------------------------------------------
(* Properties of process() *)

\* the phases of one tick of the main integration loop
LoopPhases(ti) ==
    << <<"update_comps", ti>>, <<"update_pars", ti>>,
       <<"update_links", ti>>, <<"update_junctions", ti>> >>

RECURSIVE LoopSequence(_)
LoopSequence(ti) ==
    IF ti > NumTicks - 1 THEN <<>> ELSE LoopPhases(ti) \o LoopSequence(ti + 1)

\* the phases of a whole run of process(), as its body lists them
ProcessSequence ==
    << <<"update_pars", 0>>, <<"update_junctions", 0>>, <<"update_pars", 0>>,
       <<"update_links", 0>>, <<"update_junctions", 0>> >> \o LoopSequence(1)

\* process() has been called and has stopped, by returning or by raising
ProcessStopped == driver = "process" /\ pc \in {"done", "raised"} /\ trace # <<>>

\* C2: in a framework with junctions, once the run has stopped every junction
\* holds 0 at tick 0 and its outlinks carry a flow equal to that of its inlinks
C2_JunctionsBalanced ==
    (junc.n > 0 /\ pc \in {"done", "raised"}) =>
        \A j \in 1 .. junc.n :
            /\ junc.vals[j] = Zero
            /\ IsNum(junc.outflow[j])
            /\ junc.outflow[j] = junc.inflow[j]

\* update_junctions has been called in this run
JunctionsUpdated == \E k \in 1 .. Len(trace) : trace[k][1] = "update_junctions"

\* C16: the junctions J1 .. Jn, each flowing into the next, have an order
\* fixed at build time that lists every junction once, sources before
\* targets, and a call of update_junctions returns having balanced the
\* junctions in that order
C16_JunctionOrder ==
    (driver = "process" /\ pc \in {"done", "raised"}) =>
        /\ Len(junc.order) = junc.n
        /\ \A j \in 1 .. junc.n : \E i \in 1 .. Len(junc.order) : junc.order[i] = j
        /\ \A i \in 1 .. Len(junc.order) : \A k \in 1 .. Len(junc.order) :
               i < k => junc.order[i] < junc.order[k]
        /\ JunctionsUpdated => (err # "AttributeError" /\ junc.balanced = junc.order)

\* C25: in a model that Model.build accepted, a call of update_junctions
\* returns, and every junction outlink then carries a defined flow
C25_JunctionsDefined ==
    (driver = "process" /\ JunctionsUpdated) =>
        /\ err = "none"
        /\ \A j \in 1 .. junc.n : IsNum(junc.outflow[j])

\* C28: in a framework with junctions the run gets past the initial flush, and
\* the outlinks of a junction that held people at tick 0 then carry exactly
\* those people
C28_FlushConserves ==
    (driver = "process" /\ junc.n > 0 /\ pc \in {"done", "raised"}) =>
        /\ err = "none"
        /\ \A j \in 1 .. junc.n :
               /\ IsNum(junc.vals[j]) /\ IsNum(junc.outflow[j])
               /\ RLt(Zero, junc.vals[j]) => junc.outflow[j] = junc.vals[j]

\* C19: once the run has been cancelled during tick k, the integration does
\* not go on to tick k + 1: t_index stays at k
C19_CancelStops == cancel.requested => t_index = cancel.at

\* C29: the tick counter stays within the time grid, and a further call of
\* process() on a Model that has been processed fails the entry assertion
\* without running any phase
C29_TickCounter ==
    /\ t_index \in Ticks
    /\ (driver \in {"phases", "process"} /\ calls.n > 0) =>
           /\ pc = "raised" /\ err = "AssertionError"
           /\ trace = calls.trace

\* C4: a run of process() that has stopped has executed the phases of tick 0
\* and then, for each later tick in increasing order, update_comps,
\* update_pars, update_links and update_junctions, and nothing else
C4_PhaseSequence == ProcessStopped => trace = ProcessSequence

=============================================================================
